---- MODULE Spec2Model ----
(***************************************************************************)
(* Model of the hazard pipeline of DS210_project/src/main.rs:              *)
(*   read_csv -> rank_hazardous_asteroids -> cluster_asteroids_by_hazard   *)
(*            -> build_hazard_graph                                        *)
(*                                                                         *)
(* f64 values are modelled as tagged values: NaN, +infinity, -infinity or  *)
(* an exact rational n/d in lowest terms (d > 0).  Rounding of the binary  *)
(* representation is not modelled; comparisons with NaN are false, as in   *)
(* IEEE 754.                                                               *)
(***************************************************************************)
EXTENDS Integers, Sequences, FiniteSets, TLC

VARIABLES pc, data, ranked, clusters, graph, dist_threshold, velocity_threshold

vars == <<pc, data, ranked, clusters, graph, dist_threshold, velocity_threshold>>

\* Largest number of rows read from the CSV file.
MaxRecords == 3

(***************************************************************************)
(* f64                                                                     *)
(***************************************************************************)
RECURSIVE Gcd(_, _)
Gcd(a, b) == IF b = 0 THEN a ELSE Gcd(b, a % b)

IAbs(x) == IF x < 0 THEN -x ELSE x

NaN == [k |-> "nan", n |-> 0, d |-> 0]

INFINITY == [k |-> "inf", n |-> 1, d |-> 0]

NEG_INFINITY == [k |-> "ninf", n |-> -1, d |-> 0]

\* The finite value n/d (d # 0), in lowest terms with a positive denominator.
Fin(n, d) ==
    LET s == IF d < 0 THEN -1 ELSE 1
        g == Gcd(IAbs(n), IAbs(d))
    IN  [k |-> "fin", n |-> (s * n) \div g, d |-> (s * d) \div g]

IsNaN(a) == a.k = "nan"

IsFinite(a) == a.k = "fin"

\* a < b on f64: false when either operand is NaN.
FLt(a, b) ==
    /\ ~IsNaN(a)
    /\ ~IsNaN(b)
    /\ \/ a.k = "ninf" /\ b.k # "ninf"
       \/ a.k = "fin" /\ b.k = "inf"
       \/ a.k = "fin" /\ b.k = "fin" /\ a.n * b.d < b.n * a.d

FGt(a, b) == FLt(b, a)

\* a <= b on f64: false when either operand is NaN.
FLe(a, b) == ~IsNaN(a) /\ ~IsNaN(b) /\ ~FLt(b, a)

FGe(a, b) == FLe(b, a)

Sign(a) ==
    CASE a.k = "inf" -> 1
      [] a.k = "ninf" -> -1
      [] a.k = "fin" -> (IF a.n > 0 THEN 1 ELSE IF a.n < 0 THEN -1 ELSE 0)
      [] OTHER -> 0

\* a / b on f64 (the sign of a zero is not modelled: x / 0 takes the sign of x).
FDiv(a, b) ==
    CASE IsNaN(a) \/ IsNaN(b) -> NaN
      [] ~IsFinite(a) /\ ~IsFinite(b) -> NaN
      [] ~IsFinite(a) -> (IF Sign(a) * (IF Sign(b) < 0 THEN -1 ELSE 1) > 0
                          THEN INFINITY ELSE NEG_INFINITY)
      [] ~IsFinite(b) -> Fin(0, 1)
      [] b.n = 0 -> (IF a.n = 0 THEN NaN
                     ELSE IF a.n > 0 THEN INFINITY ELSE NEG_INFINITY)
      [] OTHER -> LET g1 == Gcd(IAbs(a.n), IAbs(b.n))
                      g2 == Gcd(a.d, b.d)
                  IN  Fin((a.n \div g1) * (b.d \div g2),
                          (a.d \div g2) * (b.n \div g1))

\* a - b on f64.
FSub(a, b) ==
    CASE IsNaN(a) \/ IsNaN(b) -> NaN
      [] ~IsFinite(a) /\ ~IsFinite(b) -> (IF a.k = b.k THEN NaN ELSE a)
      [] ~IsFinite(a) -> a
      [] ~IsFinite(b) -> (IF b.k = "inf" THEN NEG_INFINITY ELSE INFINITY)
      [] OTHER -> LET g == Gcd(a.d, b.d)
                  IN  Fin(a.n * (b.d \div g) - b.n * (a.d \div g),
                          (a.d \div g) * b.d)

\* f64::abs
FAbs(a) ==
    CASE a.k = "ninf" -> INFINITY
      [] a.k = "fin" -> Fin(IAbs(a.n), a.d)
      [] OTHER -> a

\* f64::partial_cmp: None when either operand is NaN.
partial_cmp(a, b) ==
    IF IsNaN(a) \/ IsNaN(b) THEN "None"
    ELSE IF FLt(a, b) THEN "Less"
    ELSE IF FLt(b, a) THEN "Greater"
    ELSE "Equal"

\* Option::unwrap_or
unwrap_or(opt, default) == IF opt = "None" THEN default ELSE opt

(***************************************************************************)
(* csv_reader                                                              *)
(***************************************************************************)
\* The fields of AsteroidData that the hazard pipeline reads.
AsteroidData(des, dist_min, v_rel, cd) ==
    [des |-> des, dist_min |-> dist_min, v_rel |-> v_rel, cd |-> cd]

\* Rows the CSV file may hold: the fixtures of test.rs, a repeated
\* designation, zero, negative and NaN minimum distances, equal hazard
\* ratios, and ratios on the boundaries of the bands.
Rows ==
    { AsteroidData("Asteroid A", Fin(2, 100), Fin(20, 1), "2024-01-01"),
      AsteroidData("Asteroid B", Fin(5, 100), Fin(10, 1), "2024-02-01"),
      AsteroidData("Asteroid C", Fin(1, 10), Fin(5, 1), "2024-03-01"),
      AsteroidData("Asteroid A", Fin(3, 100), Fin(15, 1), "2023-01-01"),
      AsteroidData("Ratio 10", Fin(1, 10), Fin(1, 1), "2023-05-05"),
      AsteroidData("Ratio 1000", Fin(1, 100), Fin(10, 1), "2023-07-07"),
      AsteroidData("Zero", Fin(0, 1), Fin(20, 1), "2025-01-01"),
      AsteroidData("Negative", Fin(-1, 100), Fin(15, 1), "2025-02-01"),
      AsteroidData("Missing", NaN, Fin(10, 1), "2025-03-01"),
      AsteroidData("Near 1", Fin(1, 10000), Fin(1, 1), "2026-01-01"),
      AsteroidData("Near 5", Fin(1, 10000), Fin(5, 1), "2026-02-01"),
      AsteroidData("Near 10", Fin(1, 10000), Fin(10, 1), "2026-03-01"),
      AsteroidData("Far", Fin(1, 1), Fin(5, 1), "2026-04-01") }

\* Thresholds build_hazard_graph is called with; main uses 0.05 and 10.0.
DistThresholds == {Fin(5, 100), Fin(1, 1000)}

VelocityThresholds == {Fin(10, 1), Fin(5, 1)}

(***************************************************************************)
(* rank_hazardous_asteroids                                                *)
(***************************************************************************)
\* Mutation of HazardScore: the raw ratio, without the division by 1,000,000.
HazardScoreUnscaled(a) ==
    IF FGt(a.dist_min, Fin(0, 1))
    THEN FDiv(a.v_rel, a.dist_min)
    ELSE INFINITY

\* Mutation of HazardScore: a record without a positive distance scores 0.0.
HazardScoreZeroElse(a) ==
    IF FGt(a.dist_min, Fin(0, 1))
    THEN FDiv(FDiv(a.v_rel, a.dist_min), Fin(1000000, 1))
    ELSE Fin(0, 1)

\* The hazard score of one record (the closure's `hazard_score`).
HazardScore(a) ==
    IF FGt(a.dist_min, Fin(0, 1))
    THEN FDiv(FDiv(a.v_rel, a.dist_min), Fin(1000000, 1))
    ELSE INFINITY

\* The tuple the closure of `map` returns: (des, hazard_score, dist_min, cd).
\* Rust's fields .0 .1 .2 .3 are the components 1 2 3 4 here.
RankedEntry(a) == <<a.des, HazardScore(a), a.dist_min, a.cd>>

\* data.iter().map(..).collect()
MapEntries(records) == [i \in 1..Len(records) |-> RankedEntry(records[i])]

\* Mutation of Compare: ascending order.
CompareAscending(a, b) == unwrap_or(partial_cmp(a[2], b[2]), "Equal")

\* The comparator handed to sort_by: descending by score, None taken as Equal.
Compare(a, b) == unwrap_or(partial_cmp(b[2], a[2]), "Equal")

is_less(a, b) == Compare(a, b) = "Less"

\* Mutation of InsertTail: an element also moves ahead of an equal one.
RECURSIVE InsertTailUnstable(_, _)
InsertTailUnstable(sorted, x) ==
    IF sorted = <<>> THEN <<x>>
    ELSE IF Compare(x, sorted[Len(sorted)]) # "Greater"
         THEN Append(InsertTailUnstable(SubSeq(sorted, 1, Len(sorted) - 1), x),
                     sorted[Len(sorted)])
         ELSE Append(sorted, x)

\* One step of the stable sort: x, the element after the sorted prefix, moves
\* left while it is less than its left neighbour.
RECURSIVE InsertTail(_, _)
InsertTail(sorted, x) ==
    IF sorted = <<>> THEN <<x>>
    ELSE IF is_less(x, sorted[Len(sorted)])
         THEN Append(InsertTail(SubSeq(sorted, 1, Len(sorted) - 1), x),
                     sorted[Len(sorted)])
         ELSE Append(sorted, x)

\* slice::sort_by, a stable sort.
RECURSIVE sort_by(_)
sort_by(v) ==
    IF Len(v) < 2 THEN v
    ELSE InsertTail(sort_by(SubSeq(v, 1, Len(v) - 1)), v[Len(v)])

rank_hazardous_asteroids(records) == sort_by(MapEntries(records))

(***************************************************************************)
(* cluster_asteroids_by_hazard                                             *)
(***************************************************************************)
\* The vector `thresholds`: (min, max, label).
thresholds ==
    << <<Fin(0, 1), Fin(1, 100), "Negligible Risk">>,
       <<Fin(1, 100), Fin(5, 100), "Low Risk">>,
       <<Fin(5, 100), Fin(1, 10), "Moderate Risk">>,
       <<Fin(1, 10), INFINITY, "Highest Risk">> >>

\* Mutation of InitClusters: the loop stops one band short.
InitClustersShort ==
    [label \in {thresholds[i][3] : i \in 1..(Len(thresholds) - 1)} |-> <<>>]

\* Mutation of InitClusters: no key is inserted before the assignment.
InitClustersEmpty == [label \in {} |-> <<>>]

\* The map after the initialisation loop: every label with an empty vector.
InitClusters ==
    [label \in {thresholds[i][3] : i \in 1..Len(thresholds)} |-> <<>>]

\* The bands whose test `score >= *min && score < *max` the score passes.
Matching(score) ==
    {i \in 1..Len(thresholds) :
        FGe(score, thresholds[i][1]) /\ FLt(score, thresholds[i][2])}

Min(S) == CHOOSE x \in S : \A y \in S : x <= y

\* The body of the outer loop for one asteroid: the first matching band
\* receives a clone of the entry (the `break`); unwrap panics when get_mut
\* finds no vector under the label.
ClusterStep(st, asteroid) ==
    LET score == asteroid[2]
        m == Matching(score)
    IN  IF st.panicked \/ m = {} THEN st
        ELSE LET label == thresholds[Min(m)][3]
             IN  IF label \notin DOMAIN st.map
                 THEN [st EXCEPT !.panicked = TRUE]
                 ELSE [st EXCEPT !.map[label] = Append(@, asteroid)]

RECURSIVE ClusterLoop(_, _)
ClusterLoop(st, entries) ==
    IF entries = <<>> THEN st
    ELSE ClusterLoop(ClusterStep(st, Head(entries)), Tail(entries))

cluster_asteroids_by_hazard(entries) ==
    ClusterLoop([map |-> InitClusters, panicked |-> FALSE], entries)

(***************************************************************************)
(* build_hazard_graph                                                      *)
(***************************************************************************)
\* Mutation of MeetsThresholds: the distance test is strict.
MeetsThresholdsStrict(record, dist_thr, velocity_thr) ==
    FLt(record.dist_min, dist_thr) /\ FGe(record.v_rel, velocity_thr)

\* The filter of the node loop.
MeetsThresholds(record, dist_thr, velocity_thr) ==
    FLe(record.dist_min, dist_thr) /\ FGe(record.v_rel, velocity_thr)

\* The node loop: one node (des, dist_min, v_rel) per record that passes, in
\* input order; a node's index is its position.
RECURSIVE AddNodes(_, _, _)
AddNodes(records, dist_thr, velocity_thr) ==
    IF records = <<>> THEN <<>>
    ELSE LET rest == AddNodes(SubSeq(records, 1, Len(records) - 1),
                              dist_thr, velocity_thr)
             record == records[Len(records)]
         IN  IF MeetsThresholds(record, dist_thr, velocity_thr)
             THEN Append(rest, <<record.des, record.dist_min, record.v_rel>>)
             ELSE rest

\* node_map after the node loop: the last node inserted under each designation.
NodeMap(nodes) ==
    [des \in {nodes[i][1] : i \in 1..Len(nodes)} |->
        CHOOSE i \in 1..Len(nodes) :
            /\ nodes[i][1] = des
            /\ \A j \in 1..Len(nodes) : nodes[j][1] = des => j <= i]

\* `asteroid.1 / asteroid.2` of a node (des, dist_min, v_rel).
NodeHazard(asteroid) == FDiv(asteroid[2], asteroid[3])

\* The weight of the edge from node_a to node_b.
EdgeWeight(asteroid_a, asteroid_b) ==
    FAbs(FSub(NodeHazard(asteroid_a), NodeHazard(asteroid_b)))

\* Mutation of SkipPair: a node is also compared with itself.
SkipPairNever(node_a, node_b) == FALSE

\* `if node_a == node_b { continue; }`
SkipPair(node_a, node_b) == node_a = node_b

\* The edge loops from the pair (node_a, node_b) on, both over node_indices().
RECURSIVE AddEdges(_, _, _)
AddEdges(nodes, node_a, node_b) ==
    IF node_a > Len(nodes) THEN <<>>
    ELSE IF node_b > Len(nodes) THEN AddEdges(nodes, node_a + 1, 1)
    ELSE IF SkipPair(node_a, node_b) THEN AddEdges(nodes, node_a, node_b + 1)
    ELSE <<[source |-> node_a, target |-> node_b,
            weight |-> EdgeWeight(nodes[node_a], nodes[node_b])]>>
         \o AddEdges(nodes, node_a, node_b + 1)

build_hazard_graph(records, dist_thr, velocity_thr) ==
    LET nodes == AddNodes(records, dist_thr, velocity_thr)
    IN  [nodes |-> nodes, edges |-> AddEdges(nodes, 1, 1)]

(***************************************************************************)
(* main                                                                    *)
(***************************************************************************)
Init ==
    /\ pc = "read"
    /\ data = <<>>
    /\ ranked = <<>>
    /\ clusters = <<>>
    /\ graph = [nodes |-> <<>>, edges |-> <<>>]
    /\ dist_threshold = Fin(5, 100)
    /\ velocity_threshold = Fin(10, 1)

\* read_csv pushes one more row.
ReadRecord ==
    /\ pc = "read"
    /\ Len(data) < MaxRecords
    /\ \E row \in Rows : data' = Append(data, row)
    /\ UNCHANGED <<pc, ranked, clusters, graph, dist_threshold, velocity_threshold>>

\* read_csv has returned; rank_hazardous_asteroids(&data).
RankHazardousAsteroids ==
    /\ pc = "read"
    /\ ranked' = rank_hazardous_asteroids(data)
    /\ pc' = "ranked"
    /\ UNCHANGED <<data, clusters, graph, dist_threshold, velocity_threshold>>

\* cluster_asteroids_by_hazard(&ranked_asteroids).
ClusterAsteroidsByHazard ==
    /\ pc = "ranked"
    /\ LET st == cluster_asteroids_by_hazard(ranked)
       IN  /\ clusters' = st.map
           /\ pc' = IF st.panicked THEN "panicked" ELSE "clustered"
    /\ UNCHANGED <<data, ranked, graph, dist_threshold, velocity_threshold>>

\* build_hazard_graph(&data, dist_threshold, velocity_threshold).
BuildHazardGraph ==
    /\ pc = "clustered"
    /\ \E dt \in DistThresholds, vt \in VelocityThresholds :
          /\ dist_threshold' = dt
          /\ velocity_threshold' = vt
          /\ graph' = build_hazard_graph(data, dt, vt)
    /\ pc' = "built"
    /\ UNCHANGED <<data, ranked, clusters>>

Next ==
    \/ ReadRecord
    \/ RankHazardousAsteroids
    \/ ClusterAsteroidsByHazard
    \/ BuildHazardGraph

Spec == Init /\ [][Next]_vars

(***************************************************************************)
(* Properties                                                              *)
(***************************************************************************)
Range(seq) == {seq[i] : i \in 1..Len(seq)}

Clustered == pc \in {"clustered", "built"}

Ranked == pc \in {"ranked", "clustered", "built", "panicked"}

RECURSIVE TotalLen(_, _)
TotalLen(map, labels) ==
    IF labels = {} THEN 0
    ELSE LET l == CHOOSE x \in labels : TRUE
         IN  Len(map[l]) + TotalLen(map, labels \ {l})

\* The positions of `ranked` that hold the entry of the record data[i].
EntriesOf(i) ==
    {j \in 1..Len(ranked) :
        /\ ranked[j][1] = data[i].des
        /\ ranked[j][3] = data[i].dist_min
        /\ ranked[j][4] = data[i].cd}

RawRatio(record) == FDiv(record.v_rel, record.dist_min)

\* The band table of the design: [0,10), [10,50), [50,100), [100,infinity).
CanonicalBands ==
    << <<Fin(0, 1), Fin(10, 1), "Negligible Risk">>,
       <<Fin(10, 1), Fin(50, 1), "Low Risk">>,
       <<Fin(50, 1), Fin(100, 1), "Moderate Risk">>,
       <<Fin(100, 1), INFINITY, "Highest Risk">> >>

RiskLabels == {"Negligible Risk", "Low Risk", "Moderate Risk", "Highest Risk"}

\* C1: every ranked entry, those with score +infinity included, appears in
\* exactly one of the four buckets, and the bucket sizes sum to the length of
\* the input.
C1_TotalPartition ==
    Clustered =>
        /\ TotalLen(clusters, DOMAIN clusters) = Len(ranked)
        /\ \A i \in 1..Len(ranked) :
              Cardinality({l \in DOMAIN clusters : ranked[i] \in Range(clusters[l])}) = 1

\* C2: after ranking and clustering, every record with dist_min > 0 lies in
\* the bucket of the canonical band [0,10), [10,50), [50,100), [100,infinity)
\* that contains its raw ratio v_rel / dist_min; v_rel = 20.0, dist_min = 0.02
\* lies in Highest Risk and a raw ratio of exactly 10 in Low Risk.
C2_RawRatioBands ==
    Clustered =>
        \A i \in 1..Len(data) :
            FGt(data[i].dist_min, Fin(0, 1)) =>
                \A b \in 1..Len(CanonicalBands) :
                    ( /\ FGe(RawRatio(data[i]), CanonicalBands[b][1])
                      /\ FLt(RawRatio(data[i]), CanonicalBands[b][2]) )
                    => \E e \in Range(clusters[CanonicalBands[b][3]]) :
                          /\ e[1] = data[i].des
                          /\ e[3] = data[i].dist_min
                          /\ e[4] = data[i].cd

\* C3 as stated: the score stored for a record with dist_min > 0 is the raw
\* ratio v_rel / dist_min, with no further scaling.
C3_RawRatioScore ==
    Ranked =>
        \A i \in 1..Len(data) :
            FGt(data[i].dist_min, Fin(0, 1)) =>
                /\ EntriesOf(i) # {}
                /\ \A j \in EntriesOf(i) : ranked[j][2] = RawRatio(data[i])

\* C3, amended: the score stored for a record with dist_min > 0 is the ratio
\* v_rel / dist_min divided by 1,000,000.
C3_ScaledRatioScore ==
    Ranked =>
        \A i \in 1..Len(data) :
            FGt(data[i].dist_min, Fin(0, 1)) =>
                /\ EntriesOf(i) # {}
                /\ \A j \in EntriesOf(i) :
                      ranked[j][2] = FDiv(RawRatio(data[i]), Fin(1000000, 1))

\* The record v_rel = 20.0, dist_min = 0.02 has been ranked, with score 0.001.
C3_Witness ==
    /\ pc = "ranked"
    /\ \E j \in 1..Len(ranked) :
          /\ ranked[j][3] = Fin(2, 100)
          /\ ranked[j][2] = Fin(1, 1000)
    /\ \E i \in 1..Len(data) : data[i].v_rel = Fin(20, 1) /\ data[i].dist_min = Fin(2, 100)

\* C4: the weight of every edge between nodes a and b is
\* |hazard(a) - hazard(b)| with hazard(x) = x.v_rel / x.dist_min.
C4_EdgeWeightIsRatioDifference ==
    pc = "built" =>
        \A i \in 1..Len(graph.edges) :
            LET e == graph.edges[i]
                a == graph.nodes[e.source]
                b == graph.nodes[e.target]
            IN  e.weight = FAbs(FSub(FDiv(a[3], a[2]), FDiv(b[3], b[2])))

EdgesBetween(a, b) ==
    {i \in 1..Len(graph.edges) :
        graph.edges[i].source = a /\ graph.edges[i].target = b}

NoSelfLoops ==
    \A i \in 1..Len(graph.edges) : graph.edges[i].source # graph.edges[i].target

\* C5 as stated: no self-loops and exactly one edge for each unordered pair of
\* distinct nodes, n*(n-1)/2 edges in all.
C5_OneEdgePerUnorderedPair ==
    pc = "built" =>
        LET n == Len(graph.nodes)
        IN  /\ NoSelfLoops
            /\ \A a \in 1..n : \A b \in (a + 1)..n :
                  Cardinality(EdgesBetween(a, b) \cup EdgesBetween(b, a)) = 1
            /\ 2 * Len(graph.edges) = n * (n - 1)

\* C5, amended: no self-loops and exactly one edge for each ordered pair of
\* distinct nodes (two for each unordered pair, one in each direction),
\* n*(n-1) edges in all, so at least one edge when two or more records pass.
C5_OneEdgePerOrderedPair ==
    pc = "built" =>
        LET n == Len(graph.nodes)
        IN  /\ NoSelfLoops
            /\ \A a \in 1..n : \A b \in 1..n :
                  a # b => Cardinality(EdgesBetween(a, b)) = 1
            /\ Len(graph.edges) = n * (n - 1)
            /\ (n >= 2 => Len(graph.edges) > 0)

\* A graph over three records that passed the filter has been built.
C5_Witness == pc = "built" /\ Len(graph.nodes) >= 3 /\ Len(graph.edges) = 6

\* The input records that satisfy dist_min <= dist_threshold and
\* v_rel >= velocity_threshold.
Qualifying ==
    {i \in 1..Len(data) :
        /\ FLe(data[i].dist_min, dist_threshold)
        /\ FGe(data[i].v_rel, velocity_threshold)}

\* C6: the graph has one node for each record with dist_min <= dist_threshold
\* and v_rel >= velocity_threshold, records that share a designation counted
\* separately, and the node's payload is the record's (des, dist_min, v_rel).
C6_NodePerQualifyingRecord ==
    pc = "built" =>
        /\ Len(graph.nodes) = Cardinality(Qualifying)
        /\ \A i \in Qualifying :
              graph.nodes[Cardinality({j \in Qualifying : j <= i})]
                  = <<data[i].des, data[i].dist_min, data[i].v_rel>>

\* Two records of one designation passed the filter, one on the distance
\* threshold itself, and a third record did not pass.
C6_Witness ==
    /\ pc = "built"
    /\ Len(graph.nodes) < Len(data)
    /\ Cardinality(DOMAIN NodeMap(graph.nodes)) < Len(graph.nodes)
    /\ \E i \in 1..Len(graph.nodes) : graph.nodes[i][2] = dist_threshold

IndexPermutations(n) ==
    {p \in [1..n -> 1..n] : \A i, j \in 1..n : p[i] = p[j] => i = j}

\* C7: the ranked list is a permutation of the input, one entry (designation,
\* score, dist_min, date) per record, in non-increasing order of score, and
\* entries of equal score keep their input order.
C7_StableDescendingPermutation ==
    Ranked =>
        /\ Len(ranked) = Len(data)
        /\ \E p \in IndexPermutations(Len(data)) :
              /\ \A k \in 1..Len(ranked) :
                    /\ ranked[k][1] = data[p[k]].des
                    /\ ranked[k][3] = data[p[k]].dist_min
                    /\ ranked[k][4] = data[p[k]].cd
              /\ \A i, j \in 1..Len(ranked) :
                    i < j =>
                        /\ FGe(ranked[i][2], ranked[j][2])
                        /\ (ranked[i][2] = ranked[j][2] => p[i] < p[j])

\* Three records were ranked: the input was not in order, and two records of
\* different designations have the same score.
C7_Witness ==
    /\ pc = "ranked"
    /\ Len(ranked) >= 3
    /\ ranked # MapEntries(data)
    /\ \E i, j \in 1..Len(ranked) :
          i # j /\ ranked[i][2] = ranked[j][2] /\ ranked[i][1] # ranked[j][1]

\* C8: a record whose dist_min is zero or negative has score +infinity, and
\* its entry precedes every entry with a finite score.
C8_NonPositiveDistanceFirst ==
    Ranked =>
        /\ \A i \in 1..Len(data) :
              FLe(data[i].dist_min, Fin(0, 1)) =>
                  /\ EntriesOf(i) # {}
                  /\ \A j \in EntriesOf(i) : ranked[j][2] = INFINITY
        /\ \A j, k \in 1..Len(ranked) :
              (FLe(ranked[j][3], Fin(0, 1)) /\ IsFinite(ranked[k][2])) => j < k

\* A record with a zero and one with a negative distance were read after a
\* record with a finite score, and the list has been ranked.
C8_Witness ==
    /\ pc = "ranked"
    /\ Len(data) >= 3
    /\ FGt(data[1].dist_min, Fin(0, 1))
    /\ \E i, j \in 2..Len(data) :
          data[i].dist_min = Fin(0, 1) /\ FLt(data[j].dist_min, Fin(0, 1))

C10_FourKeys ==
    Clustered =>
        /\ DOMAIN clusters = RiskLabels
        /\ \A b \in 1..Len(thresholds) :
              (\A i \in 1..Len(ranked) :
                  ~(FGe(ranked[i][2], thresholds[b][1]) /\ FLt(ranked[i][2], thresholds[b][2])))
              => clusters[thresholds[b][3]] = <<>>

\* Clustering returned for the empty list.
C10_Witness == pc = "clustered" /\ ranked = <<>> /\ DOMAIN clusters # {}

====
